---- MODULE Spec2Model ----
(***************************************************************************)
(* Amigo Secreto (src/app.py): groups, memberships, the individual draw    *)
(* and the token-gated reveal, as a state machine over the relational      *)
(* tables.  Every HTTP request is handled by a worker; each database       *)
(* query or commit of a handler is one step, so requests of different      *)
(* workers interleave between the statements of a handler exactly as they  *)
(* do between the round trips to the database.                             *)
(*                                                                         *)
(* Tables are sequences of rows in insertion order; a row's primary key    *)
(* is its position (no handler modelled here deletes a row of these        *)
(* tables).  query.filter_by(...).first() is the first matching row.       *)
(***************************************************************************)
EXTENDS Integers, Sequences, FiniteSets

\* ------------------------------------------------------------------ bounds
NumUsers == 3        \* registered, logged-in users 1..NumUsers
NumAdmins == 1       \* the users 1..NumAdmins create groups
NumWorkers == 2      \* requests that can be in flight together
NumCodigos == 1      \* values secrets.token_hex(5) is drawn from
NumTokens == 3       \* values secrets.token_urlsafe(32) is drawn from
MaxGrupos == 1       \* Grupo rows
MaxMembros == 3      \* MembroGrupo rows
MaxSorteios == 3     \* SorteioIndividual rows
MaxViews == 1        \* a reveal is admitted while the views recorded are fewer

Users == 1..NumUsers
Admins == 1..NumAdmins
Workers == 1..NumWorkers
Codigos == 1..NumCodigos
Tokens == 1..NumTokens

None == 0            \* Python None / "no row"
Utcnow == 1          \* a value of datetime.utcnow(): a DateTime column is None or a time

VARIABLES
    grupos,     \* table Grupo: rows [codigo_acesso, admin_id]
    membros,    \* table MembroGrupo: rows [usuario_id, grupo_id]
    sorteios,   \* table SorteioIndividual
    req,        \* per worker: the request in flight and its handler's locals
    resp        \* the response the last step sent, NoResp if it sent none

vars == <<grupos, membros, sorteios, req, resp>>

\* ------------------------------------------------------------ the queries

\* Query.first(): the first of the matching rows (their positions), or None
First(rows) ==
    IF rows = {} THEN None ELSE CHOOSE i \in rows : \A j \in rows : i <= j

\* Grupo.query.filter_by(codigo_acesso=codigo).first()
GrupoPorCodigo(codigo) ==
    First({ i \in DOMAIN grupos : grupos[i].codigo_acesso = codigo })

MembroQualquer(u, g) ==
    First({ i \in DOMAIN membros : membros[i].grupo_id = g })

\* MembroGrupo.query.filter_by(usuario_id=u, grupo_id=g).first()
MembroExistente(u, g) ==
    First({ i \in DOMAIN membros :
              membros[i].usuario_id = u /\ membros[i].grupo_id = g })

SorteioNuncaExistente(u, g) == None

\* SorteioIndividual.query.filter_by(usuario_id=u, grupo_id=g).first()
SorteioExistente(u, g) ==
    First({ i \in DOMAIN sorteios :
              sorteios[i].usuario_id = u /\ sorteios[i].grupo_id = g })

\* SorteioIndividual.query.filter_by(token_acesso=token).first()
SorteioPorToken(token) ==
    First({ i \in DOMAIN sorteios : sorteios[i].token_acesso = token })

\* MembroGrupo.query.filter_by(grupo_id=g).all(), also Grupo.membros
MembrosDoGrupo(g) ==
    SelectSeq(membros, LAMBDA m : m.grupo_id = g)

RECURSIVE MapUsuario(_)
MapUsuario(ms) ==
    IF ms = <<>> THEN <<>> ELSE <<Head(ms).usuario_id>> \o MapUsuario(Tail(ms))

ParticipantesComProprio(ms, u) == MapUsuario(ms)

ParticipantesNaoSorteados(ms, u) ==
    SelectSeq(MapUsuario(ms),
              LAMBDA x : x # u /\ \A i \in DOMAIN sorteios :
                                     sorteios[i].amigo_sorteado_id # x)

\* participantes = [m.usuario for m in membros if m.usuario_id != current_user.id]
Participantes(ms, u) ==
    SelectSeq(MapUsuario(ms), LAMBDA x : x # u)

RECURSIVE StatusDe(_, _)
\* the loop of Grupo.status_sorteio_membros over the rows ms of Grupo.membros
StatusDe(ms, g) ==
    IF ms = <<>> THEN <<>>
    ELSE LET membro == Head(ms)
             sorteio == SorteioExistente(membro.usuario_id, g)
         IN  << [ usuario_id     |-> membro.usuario_id,
                  ja_sorteou     |-> sorteio # None,
                  data_sorteio   |-> IF sorteio # None
                                     THEN sorteios[sorteio].data_sorteio ELSE None,
                  amigo_sorteado |-> IF sorteio # None
                                     THEN sorteios[sorteio].amigo_sorteado_id ELSE None ] >>
             \o StatusDe(Tail(ms), g)

\* Grupo.status_sorteio_membros
status_sorteio_membros(g) == StatusDe(MembrosDoGrupo(g), g)

SempreAutorizado(sorteio, u) == TRUE

\* ver_meu_sorteio: sorteio.usuario_id != current_user.id is denied
Autorizado(sorteio, u) == sorteio.usuario_id = u

SemRestricaoToken(token) == TRUE

\* unique=True on SorteioIndividual.token_acesso: the insert is accepted iff
\* no row carries the token
TokenLivre(token) == \A i \in DOMAIN sorteios : sorteios[i].token_acesso # token

\* unique=True on Grupo.codigo_acesso
CodigoLivre(codigo) == \A i \in DOMAIN grupos : grupos[i].codigo_acesso # codigo

\* The values a fresh secrets.token_urlsafe(32) is distinguished by: a token
\* some row already carries, or the least token no row carries.
TokensUsados == { sorteios[i].token_acesso : i \in DOMAIN sorteios }
TokenGerado ==
    TokensUsados \cup
        (IF Tokens \ TokensUsados = {} THEN {}
         ELSE { CHOOSE t \in Tokens \ TokensUsados :
                    \A t2 \in Tokens \ TokensUsados : t <= t2 })

\* ------------------------------------------------------------ the requests
\* A worker is idle or inside a handler: pc names the statement it executes
\* next, the other fields are the handler's arguments and locals.  A request
\* arrives with the first statement of its handler that touches the
\* database; the step that returns from the handler puts the response in
\* resp and frees the worker.

Idle == [ op |-> "idle", pc |-> "idle", user |-> None, grupo_id |-> None,
          participantes |-> <<>>, sorteio |-> None, vezes_visualizado |-> 0,
          sorteio_previo |-> None ]

NoResp == [ op |-> "idle", user |-> None, grupo_id |-> None, sorteio |-> None,
            sorteio_previo |-> None, status |-> 0, error |-> "",
            redirect |-> None, amigo |-> None, status_membros |-> <<>> ]

Arrives(op, u) == [ Idle EXCEPT !.op = op, !.user = u ]

\* the free worker that takes the next request: workers are interchangeable,
\* the first free one is handed the request
Livre(w) ==
    /\ req[w].pc = "idle"
    /\ \A v \in Workers : v < w => req[v].pc # "idle"

\* requests in flight that may still insert a row into a table
Pendentes(ops) == Cardinality({ w \in Workers : req[w].op \in ops })

RECURSIVE SomaVezes(_)
SomaVezes(s) ==
    IF s = <<>> THEN 0 ELSE Head(s).vezes_visualizado + SomaVezes(Tail(s))

\* history: the first draw (u, g) has, None when it has none
SorteioPrevio(u, g) ==
    LET de == { i \in DOMAIN sorteios :
                  sorteios[i].usuario_id = u /\ sorteios[i].grupo_id = g }
    IN  IF de = {} THEN None ELSE CHOOSE i \in de : \A j \in de : i <= j

\* the response of request r: HTTP status, error kind, token of the redirect
Resposta(r, status, error, redirect) ==
    [ NoResp EXCEPT !.op = r.op, !.user = r.user, !.grupo_id = r.grupo_id,
                    !.sorteio = r.sorteio, !.sorteio_previo = r.sorteio_previo,
                    !.status = status, !.error = error, !.redirect = redirect ]

\* the handler goes on to its next statement
Continua(w, r) ==
    /\ req' = [ req EXCEPT ![w] = r ]
    /\ resp' = NoResp

\* the handler returns
Responde(w, body) ==
    /\ req' = [ req EXCEPT ![w] = Idle ]
    /\ resp' = body

Init ==
    /\ grupos = <<>>
    /\ membros = <<>>
    /\ sorteios = <<>>
    /\ req = [ w \in Workers |-> Idle ]
    /\ resp = NoResp

\* ------------------------------------------------------------ criar_grupo

\* POST /grupo/criar: codigo_acesso = secrets.token_hex(5)[:10].upper();
\* db.session.add(grupo); db.session.commit()
criar_grupo_commit_grupo(w) ==
    /\ Livre(w)
    /\ \E u \in Admins, codigo_acesso \in Codigos :
          LET r == Arrives("criar_grupo", u) IN
          IF CodigoLivre(codigo_acesso)
          THEN /\ Len(grupos) + Pendentes({"criar_grupo"}) < MaxGrupos
               /\ Len(membros) + Pendentes({"criar_grupo", "entrar_grupo"}) < MaxMembros
               /\ grupos' = Append(grupos, [ codigo_acesso |-> codigo_acesso,
                                             admin_id |-> u ])
               /\ Continua(w, [ r EXCEPT !.pc = "commit_membro",
                                         !.grupo_id = Len(grupos) + 1 ])
          ELSE /\ Responde(w, Resposta(r, 500, "IntegrityError", None))
               /\ UNCHANGED grupos
    /\ UNCHANGED <<membros, sorteios>>

\* membro = MembroGrupo(current_user.id, grupo.id); add; commit; redirect
criar_grupo_commit_membro(w) ==
    /\ req[w].op = "criar_grupo" /\ req[w].pc = "commit_membro"
    /\ membros' = Append(membros, [ usuario_id |-> req[w].user,
                                    grupo_id |-> req[w].grupo_id ])
    /\ Responde(w, Resposta(req[w], 302, "", None))
    /\ UNCHANGED <<grupos, sorteios>>

\* ----------------------------------------------------------- entrar_grupo

\* POST /grupo/entrar: codigo = request.form['codigo'].strip().upper(), a
\* value of Codigos once normalised;
\* grupo = Grupo.query.filter_by(codigo_acesso=codigo).first()
entrar_grupo_q_grupo(w) ==
    /\ Livre(w)
    /\ Len(membros) + Pendentes({"criar_grupo", "entrar_grupo"}) < MaxMembros
    /\ \E u \in Users, codigo \in Codigos :
          LET r == Arrives("entrar_grupo", u)
              grupo == GrupoPorCodigo(codigo)
          IN  IF grupo = None
              THEN Responde(w, Resposta(r, 302, "CodigoInvalido", None))
              ELSE Continua(w, [ r EXCEPT !.pc = "q_existente", !.grupo_id = grupo ])
    /\ UNCHANGED <<grupos, membros, sorteios>>

\* existente = MembroGrupo.query.filter_by(...).first()
entrar_grupo_q_existente(w) ==
    /\ req[w].op = "entrar_grupo" /\ req[w].pc = "q_existente"
    /\ IF MembroExistente(req[w].user, req[w].grupo_id) # None
       THEN Responde(w, Resposta(req[w], 302, "AlreadyMember", None))
       ELSE Continua(w, [ req[w] EXCEPT !.pc = "commit_membro" ])
    /\ UNCHANGED <<grupos, membros, sorteios>>

\* membro = MembroGrupo(...); db.session.add(membro); db.session.commit()
entrar_grupo_commit(w) ==
    /\ req[w].op = "entrar_grupo" /\ req[w].pc = "commit_membro"
    /\ membros' = Append(membros, [ usuario_id |-> req[w].user,
                                    grupo_id |-> req[w].grupo_id ])
    /\ Responde(w, Resposta(req[w], 302, "", None))
    /\ UNCHANGED <<grupos, sorteios>>

\* -------------------------------------------- realizar_sorteio_individual

\* POST /grupo/<grupo_id>/realizar-sorteio: Grupo.query.get_or_404(grupo_id);
\* membro = MembroGrupo...first(); 403 when there is none.
\* sorteio_previo records the draw (usuario, grupo) had when the request
\* arrived, for the statements about a repeated call.
realizar_sorteio_q_membro(w) ==
    /\ Livre(w)
    /\ Len(sorteios) + Pendentes({"realizar_sorteio_individual"}) < MaxSorteios
    /\ \E u \in Users, grupo_id \in 1..MaxGrupos :
          LET r == [ Arrives("realizar_sorteio_individual", u) EXCEPT
                       !.grupo_id = grupo_id,
                       !.sorteio_previo = SorteioPrevio(u, grupo_id) ]
          IN  IF grupo_id \notin DOMAIN grupos
              THEN Responde(w, Resposta(r, 404, "NotFound", None))
              ELSE IF MembroExistente(u, grupo_id) = None
              THEN Responde(w, Resposta(r, 403, "NotMember", None))
              ELSE Continua(w, [ r EXCEPT !.pc = "q_sorteio" ])
    /\ UNCHANGED <<grupos, membros, sorteios>>

\* sorteio_existente = SorteioIndividual...first(); 400 with its token
realizar_sorteio_q_sorteio(w) ==
    /\ req[w].op = "realizar_sorteio_individual" /\ req[w].pc = "q_sorteio"
    /\ LET sorteio_existente == SorteioExistente(req[w].user, req[w].grupo_id) IN
          IF sorteio_existente # None
          THEN Responde(w, Resposta(req[w], 400, "AlreadyDrawn",
                                    sorteios[sorteio_existente].token_acesso))
          ELSE Continua(w, [ req[w] EXCEPT !.pc = "q_membros" ])
    /\ UNCHANGED <<grupos, membros, sorteios>>

\* membros = MembroGrupo...all(); participantes = [...]; 400 when empty
realizar_sorteio_q_membros(w) ==
    /\ req[w].op = "realizar_sorteio_individual" /\ req[w].pc = "q_membros"
    /\ LET participantes == Participantes(MembrosDoGrupo(req[w].grupo_id), req[w].user) IN
          IF Len(participantes) < 1
          THEN Responde(w, Resposta(req[w], 400, "NoCandidates", None))
          ELSE Continua(w, [ req[w] EXCEPT !.pc = "commit_sorteio",
                                           !.participantes = participantes ])
    /\ UNCHANGED <<grupos, membros, sorteios>>

\* amigo_sorteado = random.choice(participantes); SorteioIndividual(...,
\* token_acesso=secrets.token_urlsafe(32)); add; commit.  A token some row
\* carries violates the unique constraint: the commit raises, nothing is
\* inserted and the request ends in a server error.
realizar_sorteio_commit(w) ==
    /\ req[w].op = "realizar_sorteio_individual" /\ req[w].pc = "commit_sorteio"
    /\ \E k \in DOMAIN req[w].participantes, token \in TokenGerado :
          LET amigo_sorteado == req[w].participantes[k] IN
          IF TokenLivre(token)
          THEN /\ sorteios' = Append(sorteios,
                      [ usuario_id          |-> req[w].user,
                        grupo_id            |-> req[w].grupo_id,
                        amigo_sorteado_id   |-> amigo_sorteado,
                        data_sorteio        |-> Utcnow,
                        ultima_visualizacao |-> None,
                        vezes_visualizado   |-> 0,
                        token_acesso        |-> token ])
               /\ Responde(w, [ Resposta(req[w], 200, "", token) EXCEPT
                                  !.sorteio = Len(sorteios) + 1,
                                  !.amigo = amigo_sorteado ])
          ELSE /\ Responde(w, Resposta(req[w], 500, "IntegrityError", None))
               /\ UNCHANGED sorteios
    /\ UNCHANGED <<grupos, membros>>

\* -------------------------------------------------------- ver_meu_sorteio

\* GET /meu-sorteio/<token>: sorteio = SorteioIndividual...first_or_404();
\* the owner check
ver_meu_sorteio_q_sorteio(w) ==
    /\ Livre(w)
    /\ SomaVezes(sorteios) < MaxViews
    /\ \E u \in Users, token \in Tokens :
          LET r == Arrives("ver_meu_sorteio", u)
              sorteio == SorteioPorToken(token)
          IN  IF sorteio = None
              THEN Responde(w, Resposta(r, 404, "NotFound", None))
              ELSE IF ~Autorizado(sorteios[sorteio], u)
              THEN Responde(w, Resposta([ r EXCEPT !.sorteio = sorteio ],
                                        302, "Forbidden", None))
              ELSE Continua(w, [ r EXCEPT !.pc = "registrar", !.sorteio = sorteio,
                                   !.vezes_visualizado =
                                       sorteios[sorteio].vezes_visualizado ])
    /\ UNCHANGED <<grupos, membros, sorteios>>

\* SorteioIndividual.registrar_visualizacao on the row loaded by q_sorteio:
\* the counter written is the loaded value plus one.  The queries that follow
\* (group, suggestions of the recipient) only read, and the page is returned.
registrar_visualizacao(w) ==
    /\ req[w].op = "ver_meu_sorteio" /\ req[w].pc = "registrar"
    /\ sorteios' = [ sorteios EXCEPT
                       ![req[w].sorteio].ultima_visualizacao = Utcnow,
                       ![req[w].sorteio].vezes_visualizado = req[w].vezes_visualizado + 1 ]
    /\ Responde(w, [ Resposta(req[w], 200, "", None) EXCEPT
                       !.amigo = sorteios[req[w].sorteio].amigo_sorteado_id ])
    /\ UNCHANGED <<grupos, membros>>

\* ----------------------------------------------------- api_status_sorteio

\* GET /api/grupo/<grupo_id>/status-sorteio:
\* grupo = Grupo.query.get_or_404(grupo_id); the admin check
api_status_sorteio_q_grupo(w) ==
    /\ Livre(w)
    /\ \E u \in Users, grupo_id \in 1..MaxGrupos :
          LET r == [ Arrives("api_status_sorteio", u) EXCEPT !.grupo_id = grupo_id ]
          IN  IF grupo_id \notin DOMAIN grupos
              THEN Responde(w, Resposta(r, 404, "NotFound", None))
              ELSE IF grupos[grupo_id].admin_id # u
              THEN Responde(w, Resposta(r, 403, "Forbidden", None))
              ELSE Continua(w, [ r EXCEPT !.pc = "status" ])
    /\ UNCHANGED <<grupos, membros, sorteios>>

\* status_membros = grupo.status_sorteio_membros(); the JSON body.  The
\* queries of the loop read one state of the tables.
api_status_sorteio_status(w) ==
    /\ req[w].op = "api_status_sorteio" /\ req[w].pc = "status"
    /\ Responde(w, [ Resposta(req[w], 200, "", None) EXCEPT
                       !.status_membros = status_sorteio_membros(req[w].grupo_id) ])
    /\ UNCHANGED <<grupos, membros, sorteios>>

\* -------------------------------------------------------------- ver_grupo

\* GET /grupo/<grupo_id>: grupo = Grupo.query.get_or_404(grupo_id);
\* membro = MembroGrupo...first(); access is denied to a user who has no
\* membership and is not the group's admin.  The handler only reads: the
\* queries of the page (usuario_ja_sorteou, amigo_do_usuario and, for the
\* admin, status_sorteio_membros) read one state of the tables.
ver_grupo(w) ==
    /\ Livre(w)
    /\ \E u \in Users, grupo_id \in 1..MaxGrupos :
          LET r == [ Arrives("ver_grupo", u) EXCEPT !.grupo_id = grupo_id ]
              sorteio == SorteioExistente(u, grupo_id)
          IN  IF grupo_id \notin DOMAIN grupos
              THEN Responde(w, Resposta(r, 404, "NotFound", None))
              ELSE IF MembroExistente(u, grupo_id) = None
                      /\ grupos[grupo_id].admin_id # u
              THEN Responde(w, Resposta(r, 302, "Forbidden", None))
              ELSE Responde(w, [ Resposta(r, 200, "", None) EXCEPT
                 !.sorteio = sorteio,
                 !.amigo = IF sorteio # None
                           THEN sorteios[sorteio].amigo_sorteado_id ELSE None,
                 !.status_membros = IF grupos[grupo_id].admin_id = u
                                    THEN status_sorteio_membros(grupo_id) ELSE <<>> ])
    /\ UNCHANGED <<grupos, membros, sorteios>>

\* ------------------------------------------------------------------- Next

Next ==
    \/ \E w \in Workers : criar_grupo_commit_grupo(w)
    \/ \E w \in Workers : criar_grupo_commit_membro(w)
    \/ \E w \in Workers : entrar_grupo_q_grupo(w)
    \/ \E w \in Workers : entrar_grupo_q_existente(w)
    \/ \E w \in Workers : entrar_grupo_commit(w)
    \/ \E w \in Workers : realizar_sorteio_q_membro(w)
    \/ \E w \in Workers : realizar_sorteio_q_sorteio(w)
    \/ \E w \in Workers : realizar_sorteio_q_membros(w)
    \/ \E w \in Workers : realizar_sorteio_commit(w)
    \/ \E w \in Workers : ver_meu_sorteio_q_sorteio(w)
    \/ \E w \in Workers : registrar_visualizacao(w)
    \/ \E w \in Workers : api_status_sorteio_q_grupo(w)
    \/ \E w \in Workers : api_status_sorteio_status(w)
    \/ \E w \in Workers : ver_grupo(w)

Spec == Init /\ [][Next]_vars

\* ----------------------------------------------------------------- claims

EhMembro(u, g) ==
    \E k \in DOMAIN membros : membros[k].usuario_id = u /\ membros[k].grupo_id = g

JaSorteou(u, g) ==
    \E i \in DOMAIN sorteios : sorteios[i].usuario_id = u /\ sorteios[i].grupo_id = g

MembrosDe(g) == { u \in Users : EhMembro(u, g) }

\* the step is the one in which worker w returns from handler op at pc
Retorna(w, op, pc) ==
    req[w].op = op /\ req[w].pc = pc /\ req'[w].pc = "idle"

\* C1: the SorteioIndividual table holds at most one row per
\* (usuario_id, grupo_id), whatever the interleaving of the draw requests.
C1_UmSorteioPorPar ==
    \A i, j \in DOMAIN sorteios :
        (sorteios[i].usuario_id = sorteios[j].usuario_id
           /\ sorteios[i].grupo_id = sorteios[j].grupo_id) => i = j

C2_Resposta ==
    (resp.op = "realizar_sorteio_individual" /\ resp.sorteio_previo # None) =>
        /\ resp.status = 400
        /\ resp.error = "AlreadyDrawn"
        /\ sorteios[resp.sorteio_previo].usuario_id = resp.user
        /\ sorteios[resp.sorteio_previo].grupo_id = resp.grupo_id
        /\ resp.redirect = sorteios[resp.sorteio_previo].token_acesso

C2_SemInsercao ==
    /\ \A w \in Workers :
          (req[w].op = "realizar_sorteio_individual" /\ req[w].sorteio_previo # None
             /\ req'[w] # req[w]) => sorteios' = sorteios
    /\ \A i \in DOMAIN sorteios :
          /\ i \in DOMAIN sorteios'
          /\ sorteios'[i].usuario_id = sorteios[i].usuario_id
          /\ sorteios'[i].grupo_id = sorteios[i].grupo_id
          /\ sorteios'[i].amigo_sorteado_id = sorteios[i].amigo_sorteado_id
          /\ sorteios'[i].token_acesso = sorteios[i].token_acesso

\* C2: a draw request that arrives when its user already has a draw in the
\* group is answered 400 AlreadyDrawn with the redirect built from the token
\* of that draw; no step of the request changes the SorteioIndividual table,
\* and no step at all changes the drawer, group, recipient or token of a row.
C2_SorteioRepetido == []C2_Resposta /\ [][C2_SemInsercao]_vars

C2_Witness ==
    /\ resp.op = "realizar_sorteio_individual"
    /\ resp.sorteio_previo # None
    /\ resp.error = "AlreadyDrawn"
    /\ resp.redirect = sorteios[resp.sorteio_previo].token_acesso

C3_Linhas ==
    \A i \in DOMAIN sorteios :
        /\ sorteios[i].amigo_sorteado_id # sorteios[i].usuario_id
        /\ EhMembro(sorteios[i].amigo_sorteado_id, sorteios[i].grupo_id)

C3_NoSorteio ==
    Len(sorteios') > Len(sorteios) =>
        LET novo == sorteios'[Len(sorteios')] IN
            /\ Len(sorteios') = Len(sorteios) + 1
            /\ novo.amigo_sorteado_id # novo.usuario_id
            /\ EhMembro(novo.amigo_sorteado_id, novo.grupo_id)
            /\ EhMembro(novo.usuario_id, novo.grupo_id)

\* C3: every draw row has a recipient other than its drawer who has a
\* membership in the draw's group; the row inserted by a step has a recipient
\* who is a member of the group in the state the insert is made in.
C3_AmigoElegivel == []C3_Linhas /\ [][C3_NoSorteio]_vars

C3_Witness ==
    /\ resp.op = "realizar_sorteio_individual"
    /\ resp.status = 200
    /\ resp.sorteio = Len(sorteios)
    /\ sorteios[resp.sorteio].amigo_sorteado_id = resp.amigo
    /\ Cardinality(MembrosDe(resp.grupo_id)) = NumUsers

C4_Resposta ==
    resp.op = "realizar_sorteio_individual" /\ resp.grupo_id \in DOMAIN grupos =>
        LET u == resp.user
            g == resp.grupo_id
            sozinho == MembrosDe(g) = {u}
        IN  /\ resp.error = "NotMember" <=> ~EhMembro(u, g)
            /\ resp.error = "NotMember" => resp.status = 403 /\ ~JaSorteou(u, g)
            /\ resp.error = "NoCandidates" <=> sozinho
            /\ resp.error = "NoCandidates" =>
                   resp.status = 400 /\ resp.redirect = None /\ ~JaSorteou(u, g)

C4_SemEfeito ==
    (resp'.op = "realizar_sorteio_individual"
       /\ resp'.error \in {"NotMember", "NoCandidates"}) =>
        UNCHANGED <<grupos, membros, sorteios>>

\* C4: a draw request of a user with no membership in the (existing) group
\* is answered 403 NotMember, and only such a request is; the request of a
\* member whose group has no other member is answered 400 NoCandidates, and
\* only such a request is, its user having no draw; the step that answers
\* either error leaves the three tables as they were.
C4_Precondicoes == []C4_Resposta /\ [][C4_SemEfeito]_vars

C4_Witness ==
    /\ resp.op = "realizar_sorteio_individual"
    /\ resp.error = "NoCandidates"
    /\ MembrosDe(resp.grupo_id) = {resp.user}

C5_Incremento ==
    /\ \A w \in Workers :
          Retorna(w, "ver_meu_sorteio", "registrar") =>
              sorteios'[req[w].sorteio].vezes_visualizado =
                  sorteios[req[w].sorteio].vezes_visualizado + 1
    /\ \A i \in DOMAIN sorteios :
          sorteios'[i].vezes_visualizado >= sorteios[i].vezes_visualizado

C6_Resposta ==
    (resp.op = "ver_meu_sorteio" /\ resp.sorteio # None
       /\ sorteios[resp.sorteio].usuario_id # resp.user) =>
        resp.status = 302 /\ resp.error = "Forbidden"

C6_SoODono ==
    /\ (resp'.op = "ver_meu_sorteio" /\ resp'.error = "Forbidden") =>
           sorteios' = sorteios
    /\ \A i \in DOMAIN sorteios :
          (sorteios'[i].vezes_visualizado # sorteios[i].vezes_visualizado
             \/ sorteios'[i].ultima_visualizacao # sorteios[i].ultima_visualizacao) =>
              \E w \in Workers :
                  /\ Retorna(w, "ver_meu_sorteio", "registrar")
                  /\ req[w].sorteio = i
                  /\ req[w].user = sorteios[i].usuario_id

\* C6: a reveal request whose token resolves to a draw of another user is
\* answered Forbidden and changes no row; the view fields of a draw change
\* only in a registrar_visualizacao step of a request of the draw's owner.
C6_SoODonoVe == []C6_Resposta /\ [][C6_SoODono]_vars

C6_Witness ==
    /\ resp.op = "ver_meu_sorteio"
    /\ resp.error = "Forbidden"
    /\ resp.sorteio # None
    /\ sorteios[resp.sorteio].usuario_id # resp.user
    /\ sorteios[resp.sorteio].vezes_visualizado = 0

\* C7: the token_acesso values of the draw rows are pairwise distinct.
C7_TokensDistintos ==
    \A i, j \in DOMAIN sorteios :
        sorteios[i].token_acesso = sorteios[j].token_acesso => i = j

C7_Witness ==
    /\ Len(sorteios) >= 2
    /\ resp.op = "realizar_sorteio_individual"
    /\ resp.error = "IntegrityError"

\* C8: the MembroGrupo table holds at most one row per (usuario_id, grupo_id),
\* whatever the interleaving of the criar_grupo and entrar_grupo requests.
C8_UmMembroPorPar ==
    \A i, j \in DOMAIN membros :
        (membros[i].usuario_id = membros[j].usuario_id
           /\ membros[i].grupo_id = membros[j].grupo_id) => i = j

\* C9: the status list has exactly one entry per member of the group, in
\* membership order; ja_sorteou says whether the member has a draw,
\* amigo_sorteado and data_sorteio are set exactly then; the entries number
\* the members and the entries with ja_sorteou number the members who drew.
C9_StatusPorMembro ==
    (resp.op = "api_status_sorteio" /\ resp.status = 200) =>
        LET st == resp.status_membros
            g == resp.grupo_id
            ms == MembrosDoGrupo(g)
        IN  /\ Len(st) = Cardinality(MembrosDe(g))
            /\ \A u \in MembrosDe(g) :
                  Cardinality({ k \in DOMAIN st : st[k].usuario_id = u }) = 1
            /\ \A k \in DOMAIN st :
                  /\ k \in DOMAIN ms /\ st[k].usuario_id = ms[k].usuario_id
                  /\ st[k].ja_sorteou <=> JaSorteou(st[k].usuario_id, g)
                  /\ st[k].amigo_sorteado # None <=> st[k].ja_sorteou
                  /\ st[k].data_sorteio # None <=> st[k].ja_sorteou
            /\ Cardinality({ k \in DOMAIN st : st[k].ja_sorteou })
                 = Cardinality({ u \in MembrosDe(g) : JaSorteou(u, g) })

C10_Candidatos ==
    \A w \in Workers :
        (req[w].op = "realizar_sorteio_individual" /\ req[w].pc = "q_membros"
           /\ req'[w].pc = "commit_sorteio") =>
            { req'[w].participantes[k] : k \in DOMAIN req'[w].participantes }
                = MembrosDe(req[w].grupo_id) \ {req[w].user}

\* C10: the candidates a draw request chooses among are all the other
\* members of the group, whoever has already been drawn; nothing keeps two
\* drawers from the same recipient or gives every member a drawer.
C10_SorteioIndependente == [][C10_Candidatos]_vars

C10_Witness ==
    \E g \in DOMAIN grupos :
        /\ Cardinality(MembrosDe(g)) >= 3
        /\ \A u \in MembrosDe(g) : JaSorteou(u, g)
        /\ \E i, j \in DOMAIN sorteios :
              /\ sorteios[i].grupo_id = g /\ sorteios[j].grupo_id = g
              /\ sorteios[i].usuario_id # sorteios[j].usuario_id
              /\ sorteios[i].amigo_sorteado_id = sorteios[j].amigo_sorteado_id
        /\ \E u \in MembrosDe(g) :
              \A i \in DOMAIN sorteios : sorteios[i].amigo_sorteado_id # u

\* C11: every group's admin has a membership in the group, in every
\* reachable state, the one between the two commits of criar_grupo included.
C11_AdminEhMembro ==
    \A g \in DOMAIN grupos : EhMembro(grupos[g].admin_id, g)

====
